---- MODULE Spec2Model ----
(***************************************************************************)
(* Chess Analysis API (backend/main.py): engine discovery at import time,  *)
(* the GET /health handler and the POST /api/analyze handler.              *)
(*                                                                         *)
(* Encoding of Python values:                                              *)
(*   - Optional[T]: None is the empty tuple, a value v is <<v>>;           *)
(*   - a text (PGN movetext, FEN) is a sequence of tokens, "" is << >>;    *)
(*   - a float is a fraction [num, den];                                   *)
(*   - a filesystem path is a string; the absent path is "None".           *)
(***************************************************************************)
EXTENDS Integers, Sequences, FiniteSets, TLC

VARIABLES environ, system, files, which_result,
          STOCKFISH_PATH, loaded,
          request, pc, blocked, raised,
          stockfish, orphans,
          fen, evaluation, best_move, top_moves, candidates,
          response

envvars == <<environ, system, files, which_result>>
localvars == <<fen, evaluation, best_move, top_moves, candidates>>
vars == <<environ, system, files, which_result, STOCKFISH_PATH, loaded,
          request, pc, blocked, raised, stockfish, orphans,
          fen, evaluation, best_move, top_moves, candidates, response>>

----------------------------------------------------------------------------
(* Bounds *)

MaxPgnLen == 2
MaxCand == 4
MaxOrphans == 1

----------------------------------------------------------------------------
(* Python values *)

None == << >>
Some(v) == <<v>>
NoPath == "None"

\* bool(s) for s: Optional[str] -- None and "" are falsy
Truthy(s) == s # None /\ s[1] # << >>

Float(n, d) == [num |-> n, den |-> d]
FloatEq(a, b) == a.num * b.den = b.num * a.den

Min(a, b) == IF a < b THEN a ELSE b

----------------------------------------------------------------------------
(* Engine Locator: find_stockfish_path *)

DarwinPaths == << "/opt/homebrew/bin/stockfish", "/usr/local/bin/stockfish",
                  "/usr/bin/stockfish", "/opt/local/bin/stockfish" >>
LinuxPaths == << "/usr/bin/stockfish", "/usr/games/stockfish",
                 "/usr/local/bin/stockfish", "/snap/bin/stockfish",
                 "./stockfish" >>
WindowsPaths == << "C:\\stockfish\\stockfish.exe", "stockfish.exe",
                   ".\\stockfish.exe" >>

possible_paths(sys) ==
    IF sys = "darwin" THEN DarwinPaths
    ELSE IF sys = "linux" THEN LinuxPaths
    ELSE IF sys = "windows" THEN WindowsPaths
    ELSE << >>

isfile(fs, path) == path \in fs

\* for path in possible_paths: if os.path.isfile(path): return path
RECURSIVE first_existing(_, _, _)
first_existing(fs, paths, i) ==
    IF i > Len(paths) THEN NoPath
    ELSE IF isfile(fs, paths[i]) THEN paths[i]
    ELSE first_existing(fs, paths, i + 1)

\* faulty variant: the platform list is probed before the override
find_stockfish_path_listFirst(env_path, sys, fs, in_path) ==
    LET found == first_existing(fs, possible_paths(sys), 1) IN
    IF found # NoPath THEN found
    ELSE IF env_path # NoPath /\ env_path # "" /\ isfile(fs, env_path) THEN env_path
    ELSE IF in_path # NoPath THEN in_path
    ELSE NoPath

find_stockfish_path(env_path, sys, fs, in_path) ==
    IF env_path # NoPath /\ env_path # "" /\ isfile(fs, env_path) THEN env_path
    ELSE LET found == first_existing(fs, possible_paths(sys), 1) IN
         IF found # NoPath THEN found
         ELSE IF in_path # NoPath THEN in_path
         ELSE NoPath

\* faulty variant: the availability test is skipped
EngineFound_always(path) == TRUE

\* lines 123 and 152: the negation of `if not STOCKFISH_PATH`
EngineFound(path) == path # NoPath /\ path # ""

----------------------------------------------------------------------------
(* Position Resolver: chess.pgn.read_game, chess.Board, lines 162-176 *)

PgnTokens == {" ", "e4", "e5"}
IsMove(tok) == tok # " "

Digits == << "1", "2", "3", "4", "5", "6" >>

\* chess.pgn.read_game: None when the stream holds no game (only blanks),
\* otherwise a game whose mainline is the movetext's moves in order
read_game(text) ==
    LET moves == SelectSeq(text, IsMove) IN
    IF moves = << >> THEN None ELSE Some([mainline |-> moves])

\* game.board(): the starting position
StartBoard == [move_stack |-> << >>, turn |-> "w", fullmove_number |-> 1]

\* board.push(move)
push(board, move) ==
    [move_stack |-> Append(board.move_stack, move),
     turn |-> IF board.turn = "w" THEN "b" ELSE "w",
     fullmove_number |-> IF board.turn = "b" THEN board.fullmove_number + 1
                         ELSE board.fullmove_number]

\* for move in game.mainline_moves(): board.push(move)
RECURSIVE replay(_, _, _)
replay(board, moves, i) ==
    IF i > Len(moves) THEN board
    ELSE replay(push(board, moves[i]), moves, i + 1)

\* board.fen(): placement, side to move, full-move number
board_fen(board) ==
    board.move_stack \o << board.turn, Digits[board.fullmove_number] >>

HTTPException(code, text) == [status_code |-> code, detail |-> << text >>]
EngineError == [status_code |-> 0, detail |-> << "StockfishException" >>]

\* faulty variant: the fen field is preferred to the transcript
resolve_fenFirst(req) ==
    IF Truthy(req.fen) THEN [exc |-> None, fen |-> req.fen]
    ELSE IF Truthy(req.pgn) THEN
        LET game == read_game(req.pgn[1]) IN
        IF game = None
        THEN [exc |-> Some(HTTPException(400, "Invalid PGN")), fen |-> None]
        ELSE [exc |-> None,
              fen |-> Some(board_fen(replay(StartBoard, game[1].mainline, 1)))]
    ELSE [exc |-> Some(HTTPException(400, "Either PGN or FEN required")),
          fen |-> None]

\* lines 162-176: the exception raised (None if none) and the local `fen`
resolve(req) ==
    IF Truthy(req.pgn) THEN
        LET game == read_game(req.pgn[1]) IN
        IF game = None
        THEN [exc |-> Some(HTTPException(400, "Invalid PGN")), fen |-> None]
        ELSE [exc |-> None,
              fen |-> Some(board_fen(replay(StartBoard, game[1].mainline, 1)))]
    ELSE IF Truthy(req.fen) THEN [exc |-> None, fen |-> req.fen]
    ELSE [exc |-> Some(HTTPException(400, "Either PGN or FEN required")),
          fen |-> None]

----------------------------------------------------------------------------
(* Evaluation Normalizer: lines 185-205 *)

\* faulty variant: the mate distance is reported as the score
convert_evaluation_literalMate(ev) ==
    IF ev # None /\ ev[1].type = "cp"
    THEN [eval_score |-> Float(ev[1].value, 100), mate_in |-> None]
    ELSE IF ev # None /\ ev[1].type = "mate"
    THEN [eval_score |-> Float(ev[1].value, 1), mate_in |-> Some(ev[1].value)]
    ELSE [eval_score |-> Float(0, 1), mate_in |-> None]

\* faulty variant: every type other than mate is read as centipawns
convert_evaluation_otherAsCp(ev) ==
    IF ev # None /\ ev[1].type = "mate"
    THEN [eval_score |-> IF ev[1].value > 0 THEN Float(10, 1) ELSE Float(-10, 1),
          mate_in |-> Some(ev[1].value)]
    ELSE IF ev # None
    THEN [eval_score |-> Float(ev[1].value, 100), mate_in |-> None]
    ELSE [eval_score |-> Float(0, 1), mate_in |-> None]

\* lines 186-193
convert_evaluation(ev) ==
    IF ev # None /\ ev[1].type = "cp"
    THEN [eval_score |-> Float(ev[1].value, 100), mate_in |-> None]
    ELSE IF ev # None /\ ev[1].type = "mate"
    THEN [eval_score |-> IF ev[1].value > 0 THEN Float(10, 1) ELSE Float(-10, 1),
          mate_in |-> Some(ev[1].value)]
    ELSE [eval_score |-> Float(0, 1), mate_in |-> None]

\* lines 196-198: pv = [move['Move'] for move in top_moves]
principal_variation(tm) == [i \in 1..Len(tm) |-> tm[i].Move]

\* line 202: best_move or ""
best_move_or_empty(bm) == IF bm # None /\ bm[1] # "" THEN bm[1] ELSE ""

\* lines 200-205
AnalysisResponse(ev, bm, tm) ==
    [evaluation |-> convert_evaluation(ev).eval_score,
     best_move |-> best_move_or_empty(bm),
     principal_variation |-> principal_variation(tm),
     mate_in |-> convert_evaluation(ev).mate_in]

\* lines 207-209: `except Exception` also catches the HTTPException raised
\* inside the try block and re-raises it with status 500
except_handler(e) ==
    [http |-> 500, detail |-> << "Analysis failed" >> \o e.detail, body |-> None]

----------------------------------------------------------------------------
(* Engine oracle (stockfish package): what one session can answer *)

RawEvaluations ==
    {None} \cup { Some([type |-> "cp", value |-> v]) : v \in {37, -120} }
           \cup { Some([type |-> "mate", value |-> v]) : v \in {3, -2, 0} }
           \cup { Some([type |-> "lowerbound", value |-> 5]) }

BestMoves == {None, Some("e2e4")}

MoveIds == << "e2e4", "d2d4", "g1f3", "c2c4", "b1c3", "g2g3" >>
Ranked(order, n) == [i \in 1..n |-> [Move |-> order[i], Centipawn |-> 40 - 10 * i]]
Reversed(s) == [i \in 1..Len(s) |-> s[Len(s) + 1 - i]]

\* the ranked candidate lists the engine may hold for a position
Rankings == { Ranked(MoveIds, n) : n \in 0..MaxCand }
            \cup { Ranked(Reversed(MoveIds), n) : n \in 1..MaxCand }

\* stockfish.get_top_moves(num_top_moves): the best num_top_moves candidates
get_top_moves(ranking, num_top_moves) ==
    SubSeq(ranking, 1, Min(num_top_moves, Len(ranking)))

\* faulty variant: five candidates are requested
top_moves_query_five(ranking) == get_top_moves(ranking, 5)

\* line 183
top_moves_query(ranking) == get_top_moves(ranking, 3)

----------------------------------------------------------------------------
(* Requests *)

DefaultDepth == 15
HealthDepth == 5

RECURSIVE Texts(_, _)
Texts(tokens, n) ==
    IF n = 0 THEN { << >> }
    ELSE LET shorter == Texts(tokens, n - 1) IN
         shorter \cup { Append(t, tok) : t \in shorter, tok \in tokens }

PgnValues == {None} \cup { Some(t) : t \in Texts(PgnTokens, MaxPgnLen) }

StartFen == board_fen(StartBoard)
FenValues == {None, Some(<< >>), Some(StartFen),
              Some(board_fen(push(StartBoard, "e4"))), Some(<< "garbage" >>)}

\* class AnalysisRequest
AnalysisRequests ==
    { [kind |-> "analyze", pgn |-> p, fen |-> f, depth |-> DefaultDepth] :
        p \in PgnValues, f \in FenValues }
HealthRequest == [kind |-> "health", pgn |-> None, fen |-> None, depth |-> 0]
NoRequest == [kind |-> "none", pgn |-> None, fen |-> None, depth |-> 0]

\* Stockfish(path=..., depth=...): a fresh engine process
Session(path, depth) ==
    [path |-> path, depth |-> depth, position |-> None, proc |-> "running"]

Running(s) == s # None /\ s[1].proc = "running"

\* The handler's frame is dropped when it returns or raises; nothing in the
\* handlers quits the engine, so the process ends only when the runtime
\* finalizes the Stockfish object: at once (fin) or at some later point.
Drop(s, fin) ==
    IF Running(s) /\ fin THEN Some([s[1] EXCEPT !.proc = "released"]) ELSE s

----------------------------------------------------------------------------
(* Initial states *)

CustomPath == "/opt/sf/stockfish-16"
KnownPaths == { DarwinPaths[i] : i \in 1..Len(DarwinPaths) }
              \cup { LinuxPaths[i] : i \in 1..Len(LinuxPaths) }
              \cup { WindowsPaths[i] : i \in 1..Len(WindowsPaths) }
              \cup { CustomPath }
Systems == {"darwin", "linux", "windows", "freebsd"}
Overrides == {NoPath, "", CustomPath, "/snap/bin/stockfish"}

ServiceInit ==
    /\ STOCKFISH_PATH = NoPath
    /\ loaded = FALSE
    /\ request = NoRequest
    /\ pc = "idle"
    /\ blocked = FALSE
    /\ raised = None
    /\ stockfish = None
    /\ orphans = 0
    /\ fen = None
    /\ evaluation = None
    /\ best_move = None
    /\ top_moves = << >>
    /\ candidates = << >>
    /\ response = None

\* any host environment
LocateInit ==
    /\ environ \in Overrides
    /\ system \in Systems
    /\ files \in SUBSET KnownPaths
    /\ which_result \in {NoPath} \cup files
    /\ ServiceInit

\* a Linux host with or without the packaged engine
Init ==
    /\ environ = NoPath
    /\ system = "linux"
    /\ files \in { {}, {"/usr/bin/stockfish"} }
    /\ which_result = NoPath
    /\ ServiceInit

----------------------------------------------------------------------------
(* Actions *)

\* line 88: STOCKFISH_PATH = find_stockfish_path()
Startup ==
    /\ ~loaded
    /\ loaded' = TRUE
    /\ STOCKFISH_PATH' = find_stockfish_path(environ, system, files, which_result)
    /\ UNCHANGED <<envvars, request, pc, blocked, raised, stockfish, orphans,
                   localvars, response>>

\* The event loop starts the handler of the next request (lines 120, 149).
\* Both handlers are coroutines that never await, so the loop of line 227
\* runs one handler at a time, from its first line to its return or raise.
Receive ==
    /\ loaded
    /\ pc \in {"idle", "done"}
    /\ Running(stockfish) => orphans < MaxOrphans
    /\ \E req \in AnalysisRequests \cup {HealthRequest} : request' = req
    /\ pc' = "start"
    /\ orphans' = IF Running(stockfish) THEN orphans + 1 ELSE orphans
    /\ stockfish' = None
    /\ raised' = None
    /\ response' = None
    /\ fen' = None
    /\ evaluation' = None
    /\ best_move' = None
    /\ top_moves' = << >>
    /\ candidates' = << >>
    /\ UNCHANGED <<envvars, STOCKFISH_PATH, loaded, blocked>>

\* lines 207-209, entered from wherever the try block raised e
Fail(e, sess) ==
    /\ raised' = Some(e)
    /\ response' = Some(except_handler(e))
    /\ pc' = "done"
    /\ \E fin \in BOOLEAN : stockfish' = Drop(sess, fin)
    /\ UNCHANGED <<envvars, STOCKFISH_PATH, loaded, request, blocked, orphans,
                   localvars>>

\* lines 152-156 and 207-209
AnalyzeEngineMissing ==
    /\ request.kind = "analyze" /\ pc = "start" /\ ~blocked
    /\ ~EngineFound(STOCKFISH_PATH)
    /\ Fail(HTTPException(500, "Stockfish engine not found"), stockfish)

\* line 159
AnalyzeSpawn ==
    /\ request.kind = "analyze" /\ pc = "start" /\ ~blocked
    /\ EngineFound(STOCKFISH_PATH)
    /\ stockfish' = Some(Session(STOCKFISH_PATH, request.depth))
    /\ pc' = "resolve"
    /\ UNCHANGED <<envvars, STOCKFISH_PATH, loaded, request, blocked, raised,
                   orphans, localvars, response>>

\* lines 162-176 (and 207-209 when they raise)
AnalyzeResolve ==
    /\ request.kind = "analyze" /\ pc = "resolve" /\ ~blocked
    /\ LET r == resolve(request) IN
       IF r.exc # None
       THEN Fail(r.exc[1], stockfish)
       ELSE /\ fen' = r.fen
            /\ pc' = "set_fen_position"
            /\ UNCHANGED <<envvars, STOCKFISH_PATH, loaded, request, blocked,
                           raised, stockfish, orphans, evaluation, best_move,
                           top_moves, candidates, response>>

\* line 179
AnalyzeSetFenPosition ==
    /\ request.kind = "analyze" /\ pc = "set_fen_position" /\ ~blocked
    /\ stockfish' = Some([stockfish[1] EXCEPT !.position = fen])
    /\ pc' = "get_evaluation"
    /\ UNCHANGED <<envvars, STOCKFISH_PATH, loaded, request, blocked, raised,
                   orphans, localvars, response>>

\* line 181
AnalyzeGetEvaluation ==
    /\ request.kind = "analyze" /\ pc = "get_evaluation" /\ ~blocked
    /\ \E ev \in RawEvaluations : evaluation' = ev
    /\ pc' = "get_best_move"
    /\ UNCHANGED <<envvars, STOCKFISH_PATH, loaded, request, blocked, raised,
                   stockfish, orphans, fen, best_move, top_moves, candidates,
                   response>>

\* line 182
AnalyzeGetBestMove ==
    /\ request.kind = "analyze" /\ pc = "get_best_move" /\ ~blocked
    /\ \E bm \in BestMoves : best_move' = bm
    /\ pc' = "get_top_moves"
    /\ UNCHANGED <<envvars, STOCKFISH_PATH, loaded, request, blocked, raised,
                   stockfish, orphans, fen, evaluation, top_moves, candidates,
                   response>>

\* line 183
AnalyzeGetTopMoves ==
    /\ request.kind = "analyze" /\ pc = "get_top_moves" /\ ~blocked
    /\ \E ranking \in Rankings :
         /\ candidates' = ranking
         /\ top_moves' = top_moves_query(ranking)
    /\ pc' = "respond"
    /\ UNCHANGED <<envvars, STOCKFISH_PATH, loaded, request, blocked, raised,
                   stockfish, orphans, fen, evaluation, best_move, response>>

\* lines 185-205
AnalyzeRespond ==
    /\ request.kind = "analyze" /\ pc = "respond" /\ ~blocked
    /\ response' = Some([http |-> 200, detail |-> << >>,
                         body |-> Some(AnalysisResponse(evaluation, best_move,
                                                        top_moves))])
    /\ pc' = "done"
    /\ \E fin \in BOOLEAN : stockfish' = Drop(stockfish, fin)
    /\ UNCHANGED <<envvars, STOCKFISH_PATH, loaded, request, blocked, raised,
                   orphans, localvars>>

AnalyzeCalls == {"set_fen_position", "get_evaluation", "get_best_move",
                 "get_top_moves"}

\* an engine call of lines 159-183 raises (the process cannot start, or
\* crashes, or rejects the position); lines 207-209 answer
AnalyzeEngineRaises ==
    /\ request.kind = "analyze" /\ ~blocked
    /\ \/ /\ pc = "start" /\ EngineFound(STOCKFISH_PATH)
          /\ Fail(EngineError, None)
       \/ /\ pc \in AnalyzeCalls
          /\ \E st \in {"running", "exited"} :
               Fail(EngineError, Some([stockfish[1] EXCEPT !.proc = st]))

\* lines 122-140 and 141-146: the health report
HealthReport(status, message, available, test_eval) ==
    [http |-> 200, detail |-> << >>,
     body |-> Some([status |-> status, message |-> message,
                    stockfish_available |-> available,
                    test_evaluation |-> test_eval])]

HealthReturn(report, sess) ==
    /\ response' = Some(report)
    /\ pc' = "done"
    /\ \E fin \in BOOLEAN : stockfish' = Drop(sess, fin)
    /\ UNCHANGED <<envvars, STOCKFISH_PATH, loaded, request, blocked, raised,
                   orphans, localvars>>

\* lines 123-128
HealthEngineMissing ==
    /\ request.kind = "health" /\ pc = "start" /\ ~blocked
    /\ ~EngineFound(STOCKFISH_PATH)
    /\ HealthReturn(HealthReport("error", "Stockfish not found", FALSE, None),
                    stockfish)

\* line 131
HealthSpawn ==
    /\ request.kind = "health" /\ pc = "start" /\ ~blocked
    /\ EngineFound(STOCKFISH_PATH)
    /\ stockfish' = Some(Session(STOCKFISH_PATH, HealthDepth))
    /\ pc' = "set_position"
    /\ UNCHANGED <<envvars, STOCKFISH_PATH, loaded, request, blocked, raised,
                   orphans, localvars, response>>

\* line 132: stockfish.set_position(["e2e4"])
HealthSetPosition ==
    /\ request.kind = "health" /\ pc = "set_position" /\ ~blocked
    /\ stockfish' = Some([stockfish[1] EXCEPT
                            !.position = Some(board_fen(push(StartBoard, "e2e4")))])
    /\ pc' = "test_evaluation"
    /\ UNCHANGED <<envvars, STOCKFISH_PATH, loaded, request, blocked, raised,
                   orphans, localvars, response>>

\* lines 133-140
HealthGetEvaluation ==
    /\ request.kind = "health" /\ pc = "test_evaluation" /\ ~blocked
    /\ \E ev \in RawEvaluations :
         HealthReturn(HealthReport("healthy", "Stockfish is working correctly",
                                   TRUE, ev), stockfish)

\* an engine call of lines 131-133 raises; lines 141-146 answer
HealthEngineRaises ==
    /\ request.kind = "health" /\ ~blocked
    /\ \/ /\ pc = "start" /\ EngineFound(STOCKFISH_PATH)
          /\ HealthReturn(HealthReport("error", "Stockfish test failed", FALSE,
                                       None), None)
       \/ /\ pc \in {"set_position", "test_evaluation"}
          /\ \E st \in {"running", "exited"} :
               HealthReturn(HealthReport("error", "Stockfish test failed", FALSE,
                                         None),
                            Some([stockfish[1] EXCEPT !.proc = st]))

\* The engine process stops answering during a call of lines 131-133 or
\* 159-183.  The calls are blocking reads with no timeout and the handlers
\* are coroutines without an await, so the handler and the event loop wait.
EngineHangs ==
    /\ ~blocked
    /\ \/ pc = "start" /\ request.kind # "none" /\ EngineFound(STOCKFISH_PATH)
       \/ pc \in AnalyzeCalls
       \/ pc \in {"set_position", "test_evaluation"}
    /\ blocked' = TRUE
    /\ UNCHANGED <<envvars, STOCKFISH_PATH, loaded, request, pc, raised,
                   stockfish, orphans, localvars, response>>

\* the runtime finalizes the Stockfish object of the finished request
Finalize ==
    /\ pc = "done"
    /\ Running(stockfish)
    /\ stockfish' = Drop(stockfish, TRUE)
    /\ UNCHANGED <<envvars, STOCKFISH_PATH, loaded, request, pc, blocked, raised,
                   orphans, localvars, response>>

\* the runtime finalizes the Stockfish object of an earlier request
FinalizeOrphan ==
    /\ orphans > 0
    /\ orphans' = orphans - 1
    /\ UNCHANGED <<envvars, STOCKFISH_PATH, loaded, request, pc, blocked, raised,
                   stockfish, localvars, response>>

\* the steps of the running handler
Handler ==
    \/ AnalyzeEngineMissing
    \/ AnalyzeSpawn
    \/ AnalyzeResolve
    \/ AnalyzeSetFenPosition
    \/ AnalyzeGetEvaluation
    \/ AnalyzeGetBestMove
    \/ AnalyzeGetTopMoves
    \/ AnalyzeRespond
    \/ AnalyzeEngineRaises
    \/ HealthEngineMissing
    \/ HealthSpawn
    \/ HealthSetPosition
    \/ HealthGetEvaluation
    \/ HealthEngineRaises

Next ==
    \/ Startup
    \/ Receive
    \/ Handler
    \/ EngineHangs
    \/ Finalize
    \/ FinalizeOrphan

Spec == Init /\ [][Next]_vars

LocateNext == Startup

LocateSpec == LocateInit /\ [][LocateNext]_vars

----------------------------------------------------------------------------
(* Properties *)

Done(kind) == pc = "done" /\ request.kind = kind
Answered(kind, http) == Done(kind) /\ response # None /\ response[1].http = http
Body == response[1].body[1]

\* the request's transcript replayed from the starting position
Replayed(text) == board_fen(replay(StartBoard, SelectSeq(text, IsMove), 1))

\* the request is an input error: no field supplied, or a transcript that
\* holds no game
InputError(req) ==
    \/ req.pgn = None /\ req.fen = None
    \/ Truthy(req.pgn) /\ read_game(req.pgn[1]) = None

\* C1: with an engine located, an analyze request that is an input error and
\* that the handler rejected as such (it raised the 400 exception) is answered
\* with HTTP status 400.
C1_InputErrorAnswered400 ==
    ( /\ Done("analyze")
      /\ EngineFound(STOCKFISH_PATH)
      /\ InputError(request)
      /\ raised # None /\ raised[1].status_code = 400 )
    => response[1].http = 400

\* C2: when discovery found no engine, no engine session is ever started, no
\* request waits, every finished health check reports status error with
\* stockfish_available false without an exception, every finished analyze
\* request is answered 500 engine-not-found, and the next request is accepted.
C2_EngineUnavailable ==
    (loaded /\ STOCKFISH_PATH = NoPath) =>
        /\ stockfish = None /\ orphans = 0
        /\ ~blocked
        /\ Done("health") =>
             /\ raised = None
             /\ Body.status = "error"
             /\ Body.stockfish_available = FALSE
        /\ Done("analyze") =>
             /\ response[1].http = 500
             /\ response[1].body = None
             /\ raised = Some(HTTPException(500, "Stockfish engine not found"))
        /\ pc \in {"idle", "done"} => ENABLED Receive

C2_Witness ==
    /\ loaded /\ STOCKFISH_PATH = NoPath
    /\ Answered("analyze", 500)
    /\ request.fen = Some(StartFen)

\* C3: a forced-mate evaluation with distance N yields mate_in = N and an
\* evaluation of +10.0 for N > 0 and -10.0 for N < 0; whenever mate_in is
\* present in a result the evaluation is +10.0 or -10.0.
C3_MateSaturation ==
    Answered("analyze", 200) =>
        /\ (evaluation # None /\ evaluation[1].type = "mate") =>
             /\ Body.mate_in = Some(evaluation[1].value)
             /\ evaluation[1].value > 0 => FloatEq(Body.evaluation, Float(10, 1))
             /\ evaluation[1].value < 0 => FloatEq(Body.evaluation, Float(-10, 1))
        /\ Body.mate_in # None =>
             \/ FloatEq(Body.evaluation, Float(10, 1))
             \/ FloatEq(Body.evaluation, Float(-10, 1))

C3_Witness ==
    /\ Answered("analyze", 200)
    /\ evaluation = Some([type |-> "mate", value |-> -2])
    /\ Body.mate_in = Some(-2)
    /\ FloatEq(Body.evaluation, Float(-10, 1))

C5_PrincipalVariationCapped ==
    Answered("analyze", 200) =>
        /\ Len(Body.principal_variation) <= 3
        /\ Len(Body.principal_variation) = Min(3, Len(candidates))
        /\ \A i \in 1..Len(Body.principal_variation) :
             Body.principal_variation[i] = candidates[i].Move

C5_Witness ==
    /\ Answered("analyze", 200)
    /\ Len(candidates) > 3
    /\ Body.principal_variation = << "g2g3", "b1c3", "c2c4" >>

\* C6: once the engine calls have returned the request is answered with a
\* well-formed result; an absent evaluation or one of unrecognized type gives
\* evaluation 0.0 and no mate_in, and a missing best move gives "".
C6_NormalizationTotal ==
    /\ (Done("analyze") /\ raised = None) =>
         /\ response[1].http = 200 /\ response[1].body # None
         /\ Body.evaluation.den > 0
         /\ Body.mate_in # None => Body.mate_in[1] \in Int
         /\ Len(Body.principal_variation) <= Len(candidates)
    /\ Answered("analyze", 200) =>
         /\ (evaluation = None \/ evaluation[1].type \notin {"cp", "mate"}) =>
              /\ FloatEq(Body.evaluation, Float(0, 1))
              /\ Body.mate_in = None
         /\ best_move = None => Body.best_move = ""
         /\ candidates = << >> => Body.principal_variation = << >>

C6_Witness ==
    /\ Answered("analyze", 200)
    /\ evaluation = None /\ best_move = None /\ candidates = << >>
    /\ Body.best_move = "" /\ Body.mate_in = None

\* C7: discovery returns the override when it names an existing file,
\* otherwise the first existing entry of the platform's list, otherwise the
\* search-path result, otherwise nothing.
OverrideOk == environ \notin {NoPath, ""} /\ environ \in files
ListHits == { i \in 1..Len(possible_paths(system)) :
                possible_paths(system)[i] \in files }
FirstHit == CHOOSE i \in ListHits : \A j \in ListHits : i <= j

C7_DiscoveryPriority ==
    loaded =>
        STOCKFISH_PATH = IF OverrideOk THEN environ
                         ELSE IF ListHits # {} THEN possible_paths(system)[FirstHit]
                         ELSE which_result

C7_Witness ==
    /\ loaded
    /\ OverrideOk /\ ListHits # {} /\ which_result # NoPath
    /\ environ # possible_paths(system)[FirstHit]
    /\ environ # which_result
    /\ STOCKFISH_PATH = environ

\* C8: an analyze request that is in one of its engine calls (set-position,
\* evaluation, best-move, top-moves) can always take a step towards its
\* answer -- the engine's reply, or a timeout that aborts the session -- so
\* it never waits forever.
C8_RequestNeverStuck ==
    (request.kind = "analyze" /\ pc \in AnalyzeCalls) => ENABLED Handler

\* C9: an analyze request that ended in an input error or in the
\* engine-not-found error started no engine session.
C9_FailFast ==
    ( /\ Done("analyze")
      /\ raised # None
      /\ \/ raised[1].status_code = 400
         \/ raised[1] = HTTPException(500, "Stockfish engine not found") )
    => stockfish = None

\* C10: when an analyze request has completed, the engine process it started
\* is no longer running.
C10_SessionReleased ==
    Done("analyze") => ~Running(stockfish)

====
